---- MODULE Spec2Model ----
(***************************************************************************)
(* OIDCAuthManager (src/src/evergreen_mcp/oidc_auth.py): the token         *)
(* lifecycle of one manager shared by cooperating asyncio tasks.           *)
(*                                                                         *)
(* A step of the model is one run of a task between two suspension points  *)
(* (an await that really yields: a contended lock, an HTTP exchange, a     *)
(* sleep).  Everything the code does synchronously in between is part of   *)
(* the same step, as on a single-threaded event loop.                      *)
(***************************************************************************)
EXTENDS Integers, Sequences, FiniteSets, TLC

\* ------------------------------------------------------------- bounds
NumTasks == 2
MaxNow == 5
MaxFlowNow == 22

\* -------------------------------------------------- program constants
ExpiryBuffer == 60
DefaultInterval == 5
SlowDownStep == 2

Tasks == 1..NumTasks
None == "none"

\* ------------------------------------------------------------- tokens
\* An access token is named by a string; its claims are read off the name.
\* "a_forged" fails signature verification; the others verify.
TokenExp(tok) ==
    CASE tok = "a_old" -> 0
      [] tok = "a60" -> 60
      [] tok = "a61" -> 61
      [] tok = "a_long" -> 1000
      [] tok = "a_forged" -> 1000
      [] OTHER -> 0

SigOk(tok) == tok \in {"a_old", "a60", "a61", "a_long"}

TokenSub(tok) == tok

\* access_token values of a refresh response (None: the field is missing).
RefreshAccessTokens == {"a_long", "a60", None}
\* access_token values of a granted poll response.
GrantAccessTokens == {"a_long", "a_forged"}

VARIABLES mgr, task, auth_lock, refresh_lock, kanopy, evergreen, now, setup,
          disk, rest, tool

vars == <<mgr, task, auth_lock, refresh_lock, kanopy, evergreen, now, setup, disk,
          rest, tool>>

\* What the calls on the manager leave alone.
outside == <<setup, disk, rest, tool>>

\* The whole state as one record, so that the synchronous parts of the code
\* compose as functions from state to state.
St ==
    [mgr |-> mgr, task |-> task, auth_lock |-> auth_lock,
     refresh_lock |-> refresh_lock, kanopy |-> kanopy,
     evergreen |-> evergreen, now |-> now, setup |-> setup]

CommitManager(s) ==
    /\ mgr' = s.mgr
    /\ task' = s.task
    /\ auth_lock' = s.auth_lock
    /\ refresh_lock' = s.refresh_lock
    /\ kanopy' = s.kanopy
    /\ evergreen' = s.evergreen
    /\ now' = s.now

Commit(s) ==
    /\ CommitManager(s)
    /\ UNCHANGED outside

\* ------------------------------------------------- _save_token on disk
\* _save_token step by step, as the file system sees it, for processes that
\* each run their own manager on the same home directory.  disk.ino maps an
\* inode to its content, a sequence of parts; disk.final and disk.temp are
\* the inodes the token file's path and the temporary path name (0: no such
\* file); disk.proc[p] is where process p is in its save: fd is the inode
\* its open file refers to.  Process p saves bundle p; bundle 0 is the
\* bundle an earlier run left.
NumSavers == 2
Savers == 1..NumSavers
SaveParts == 2
Part(b, k) == [bundle |-> b, part |-> k]
Hole == Part(-1, 0)
Whole(b) == [k \in 1..SaveParts |-> Part(b, k)]
\* content after a write of x at position pos.
WriteAt(content, pos, x) ==
    [i \in 1..(IF Len(content) > pos THEN Len(content) ELSE pos) |->
        IF i = pos THEN x ELSE IF i <= Len(content) THEN content[i] ELSE Hole]
IdleSaver == [pc |-> "idle", fd |-> 0, written |-> 0, result |-> "pending"]
IdleDisk(prev) ==
    [ino |-> IF prev THEN <<Whole(0)>> ELSE <<>>,
     final |-> IF prev THEN 1 ELSE 0,
     temp |-> 0,
     proc |-> [p \in Savers |-> IdleSaver]]

\* Lines 479-497: the handlers of _save_token remove the temporary file if
\* it exists and re-raise.
save_failed(d, p) ==
    [d EXCEPT !.temp = 0, !.proc[p].pc = "done", !.proc[p].result = "raised"]

\* Line 471: open(temp_file, "w") creates the file or truncates the one
\* the path names.
save_open(d, p, ok) ==
    IF ~ok
    THEN save_failed(d, p)
    ELSE IF d.temp # 0
    THEN [d EXCEPT !.ino[d.temp] = <<>>,
                   !.proc[p].pc = "writing", !.proc[p].fd = d.temp]
    ELSE [d EXCEPT !.ino = Append(@, <<>>), !.temp = Len(d.ino) + 1,
                   !.proc[p].pc = "writing", !.proc[p].fd = Len(d.ino) + 1]

\* Lines 472-475: json.dump, flush and fsync write the bundle, part after
\* part, at the offset of the process's own open file.
save_write(d, p, ok) ==
    IF ~ok
    THEN save_failed(d, p)
    ELSE LET k == d.proc[p].written + 1
             d1 == [d EXCEPT !.ino[d.proc[p].fd] = WriteAt(@, k, Part(p, k)),
                             !.proc[p].written = k]
         IN  IF k = SaveParts THEN [d1 EXCEPT !.proc[p].pc = "written"] ELSE d1

\* Line 478: temp_file.replace(KANOPY_TOKEN_FILE) renames whatever the
\* temporary path names now; it raises if the path names nothing.
save_replace(d, p, ok) ==
    IF ~ok \/ d.temp = 0
    THEN save_failed(d, p)
    ELSE [d EXCEPT !.final = d.temp, !.temp = 0,
                   !.proc[p].pc = "done", !.proc[p].result = "saved"]

\* -------------------------------------------------------- environment
\* Token files.  state: "absent" (no such file), "bad" (unreadable or not
\* valid JSON/YAML), "ok" (a JSON object with the two fields, None = missing).
AbsentFile ==
    [state |-> "absent", access_token |-> None, refresh_token |-> None, expires_at |-> <<>>]
BadFile ==
    [state |-> "bad", access_token |-> None, refresh_token |-> None, expires_at |-> <<>>]
OkFile(at, rt) ==
    [state |-> "ok", access_token |-> at, refresh_token |-> rt, expires_at |-> <<>>]
\* A token file that also carries an expires_at.
OkFileExp(at, rt, T) ==
    [state |-> "ok", access_token |-> at, refresh_token |-> rt, expires_at |-> <<T>>]

KanopyFiles ==
    {AbsentFile, BadFile, OkFile("a_old", "r1"), OkFile("a61", "r1")}
EvergreenFiles ==
    {AbsentFile, OkFile("a_old", "r2"), OkFile("a61", None)}

\* Answers to GET <issuer>/.well-known/openid-configuration: a failure, or a
\* document; each consumed field is present (TRUE) or missing (FALSE).
DiscoveryResponses ==
    {[ok |-> FALSE, error |-> e, device |-> FALSE, token |-> FALSE, jwks |-> FALSE] :
        e \in {"timeout", "client_error"}} \cup
    {[ok |-> TRUE, error |-> None, device |-> TRUE, token |-> TRUE, jwks |-> TRUE],
     [ok |-> TRUE, error |-> None, device |-> TRUE, token |-> TRUE, jwks |-> FALSE],
     [ok |-> TRUE, error |-> None, device |-> TRUE, token |-> FALSE, jwks |-> TRUE],
     [ok |-> TRUE, error |-> None, device |-> FALSE, token |-> TRUE, jwks |-> TRUE]}

\* Answers to the refresh POST.  status 0: no HTTP answer (error names the
\* exception); status 200 with json = FALSE: a body that is not JSON.
RefreshResponses ==
    {[status |-> 200, json |-> TRUE, error |-> None, access_token |-> at, refresh_token |-> rt] :
        at \in RefreshAccessTokens, rt \in {None, "r3"}} \cup
    {[status |-> 200, json |-> FALSE, error |-> None, access_token |-> None, refresh_token |-> None],
     [status |-> 400, json |-> TRUE, error |-> "invalid_grant", access_token |-> None, refresh_token |-> None],
     [status |-> 0, json |-> FALSE, error |-> "timeout", access_token |-> None, refresh_token |-> None],
     [status |-> 0, json |-> FALSE, error |-> "client_error", access_token |-> None, refresh_token |-> None]}

\* Whether a write of the token file succeeds (FALSE: OSError).
DiskOutcomes == BOOLEAN

\* --------------------------------------------------- token validation
\* Claims are available iff a JWKS client exists, the signature verifies and
\* jwt.decode does not reject the token as expired (exp <= now).
verify_and_decode_token(m, tok, tnow) ==
    /\ tok # None
    /\ m.jwks_client
    /\ SigOk(tok)
    /\ TokenExp(tok) > tnow

\* As check_token_expiry, but accepting a token with exactly 60 s left.
check_token_expiry_wrong(m, tok, tnow) ==
    IF ~verify_and_decode_token(m, tok, tnow)
    THEN [is_valid |-> FALSE, remaining |-> 0]
    ELSE [is_valid |-> TokenExp(tok) - tnow >= ExpiryBuffer,
          remaining |-> TokenExp(tok) - tnow]

check_token_expiry(m, tok, tnow) ==
    IF ~verify_and_decode_token(m, tok, tnow)
    THEN [is_valid |-> FALSE, remaining |-> 0]
    ELSE [is_valid |-> TokenExp(tok) - tnow > ExpiryBuffer,
          remaining |-> TokenExp(tok) - tnow]

\* The identity record is represented by the subject; "empty" is {}.
extract_user_info(m, tok, tnow) ==
    IF verify_and_decode_token(m, tok, tnow) THEN TokenSub(tok) ELSE "empty"

\* Advisory only: every path returns True.
validate_token_scopes(m, tok, tnow) == TRUE

is_authenticated(m, tnow) ==
    IF m.access_token = None
    THEN FALSE
    ELSE check_token_expiry(m, m.access_token, tnow).is_valid

\* ------------------------------------------------------- store probes
\* As check_kanopy_token, but a file that cannot be read makes the manager
\* drop the token and identity it holds.
check_kanopy_token_reset(m, f, tnow) ==
    IF f.state = "absent"
    THEN [mgr |-> m, token |-> None]
    ELSE IF f.state = "bad"
    THEN [mgr |-> [m EXCEPT !.access_token = None, !.user_info = "empty"], token |-> None]
    ELSE LET m1 == [m EXCEPT !.refresh_token = f.refresh_token]
         IN  IF /\ f.access_token # None
                /\ check_token_expiry(m1, f.access_token, tnow).is_valid
                /\ validate_token_scopes(m1, f.access_token, tnow)
             THEN [mgr |-> [m1 EXCEPT !.access_token = f.access_token,
                                      !.user_info = extract_user_info(m1, f.access_token, tnow)],
                   token |-> f.access_token]
             ELSE [mgr |-> m1, token |-> None]

\* Lines 272-311.  A file that is missing, unreadable or not JSON changes
\* nothing; expires_at is not read.
check_kanopy_token(m, f, tnow) ==
    IF f.state # "ok"
    THEN [mgr |-> m, token |-> None]
    ELSE LET m1 == [m EXCEPT !.refresh_token = f.refresh_token]
         IN  IF /\ f.access_token # None
                /\ check_token_expiry(m1, f.access_token, tnow).is_valid
                /\ validate_token_scopes(m1, f.access_token, tnow)
             THEN [mgr |-> [m1 EXCEPT !.access_token = f.access_token,
                                      !.user_info = extract_user_info(m1, f.access_token, tnow)],
                   token |-> f.access_token]
             ELSE [mgr |-> m1, token |-> None]

check_evergreen_token(m, f, tnow) ==
    IF f.state # "ok" \/ f.access_token = None
    THEN [mgr |-> m, token |-> None]
    ELSE LET rt == IF f.refresh_token # None THEN f.refresh_token ELSE m.refresh_token
             m1 == [m EXCEPT !.refresh_token = rt]
         IN  IF check_token_expiry(m, f.access_token, tnow).is_valid
             THEN IF ~validate_token_scopes(m, f.access_token, tnow)
                  THEN [mgr |-> m1, token |-> None]
                  ELSE [mgr |-> [m1 EXCEPT !.access_token = f.access_token,
                                           !.user_info = extract_user_info(m, f.access_token, tnow)],
                        token |-> f.access_token]
             ELSE [mgr |-> m1, token |-> None]

\* ------------------------------------------------------------- saving
\* As save_token, but only the access token is written.
save_token_access_only(f, token_data, disk_ok) ==
    IF disk_ok THEN OkFile(token_data.access_token, None) ELSE f

\* The file written from a token response: the response's own fields.
save_token(f, token_data, disk_ok) ==
    IF disk_ok THEN OkFile(token_data.access_token, token_data.refresh_token) ELSE f

initialize_endpoints(m, doc) ==
    [m EXCEPT !.device_auth_endpoint = doc.device,
              !.token_endpoint = doc.token,
              !.jwks_client = @ \/ doc.jwks]

\* ------------------------------------------------ device-flow inputs
\* expires_in of the device-authorization response used by the model.
DeviceExpiresIn == 5

\* Answers to the device-authorization POST.  interval is <<>> when the
\* field is missing, <<n>> when present.
DeviceResponses ==
    {[ok |-> TRUE, error |-> None, interval |-> <<>>, expires_in |-> DeviceExpiresIn],
     [ok |-> FALSE, error |-> "http_error", interval |-> <<>>, expires_in |-> 0],
     [ok |-> FALSE, error |-> "timeout", interval |-> <<>>, expires_in |-> 0]}

\* Answers to a poll POST.  status 0: no HTTP answer; json = FALSE: a body
\* that cannot be parsed; error = None in a parsed body: no "error" key.
PollResponses ==
    {[status |-> 200, json |-> TRUE, error |-> None, access_token |-> at, refresh_token |-> rt] :
        at \in GrantAccessTokens, rt \in {None, "r3"}} \cup
    {[status |-> st, json |-> TRUE, error |-> e, access_token |-> None, refresh_token |-> None] :
        st \in {400, 401},
        e \in {"authorization_pending", "slow_down", "expired_token", "access_denied", None}} \cup
    {[status |-> st, json |-> FALSE, error |-> None, access_token |-> None, refresh_token |-> None] :
        st \in {400, 401}} \cup
    {[status |-> 0, json |-> FALSE, error |-> e, access_token |-> None, refresh_token |-> None] :
        e \in {"timeout", "client_error"}}

\* ------------------------------------------------------ task records
\* pc: where the coroutine is suspended.  kind: the method the task called.
\* result: what the call returned ("raised": it raised).  interval: the
\* device flow's local.  waited: the call had to wait for a guard.  posted, rposted: the call sent a
\* device-authorization POST, a refresh POST.
\*
\* Where setup.trace is set, the call of one task, the Observer, is traced
\* in full (every task runs the same code, so what holds of the Observer's
\* call among the calls of the others holds of any call):
\*   log      in order: the steps of ensure_authenticated the call entered
\*            ("mem", "discover", "kanopy", "evergreen", "refresh",
\*            "device"), the requests it sent ("get", "refresh_post",
\*            "device_post", "poll"), "get_failed" for a discovery that
\*            failed, and "token" where a step yielded a token
\*   seen     for is_authenticated(): the token held, whether a JWKS
\*            client existed, and the time, when it was called
\*   sent_rt  the refresh token its refresh POST carried
\*   rf_cause how its refresh_token() ended
\*   df_cause how its device_flow_auth() ended
\*   df_start, df_expires  while the device flow polls: the time and the
\*            expires_in of the device-authorization answer
\*   slept    the length of the sleep before each of its poll POSTs
\*   replies  the answer to each of its poll POSTs
IdleTask ==
    [pc |-> "idle", kind |-> None, result |-> "pending", interval |-> 0,
     waited |-> FALSE, posted |-> FALSE, rposted |-> FALSE,
     log |-> <<>>, seen |-> <<>>, sent_rt |-> None,
     rf_cause |-> "unset", df_cause |-> "unset",
     df_start |-> 0, df_expires |-> 0,
     slept |-> <<>>, replies |-> <<>>]

Observer == CHOOSE t \in Tasks : \A u \in Tasks : t <= u
Second == CHOOSE t \in Tasks \ {Observer} : \A u \in Tasks \ {Observer} : t <= u

\* s2 is s with something added to the trace of t's call.
Traced(s, t, s2) == IF s.setup.trace /\ t = Observer THEN s2 ELSE s

Ev(s, t, e) == Traced(s, t, [s EXCEPT !.task[t].log = Append(@, e)])
SetPc(s, t, p) == [s EXCEPT !.task[t].pc = p]
Return(s, t, r) == [s EXCEPT !.task[t].pc = "done", !.task[t].result = r]
HeldValid(s) == is_authenticated(s.mgr, s.now)

\* ------------------------------------------------ ensure_authenticated
\* Leaving `async with self._auth_lock` with a return value.
ensure_return(s, t, r) == Return([s EXCEPT !.auth_lock = 0], t, r)

\* An exception leaves the guards the task holds and ends the call.
raise_out(s, t) ==
    Return([s EXCEPT !.auth_lock = IF @ = t THEN 0 ELSE @,
                     !.refresh_lock = IF @ = t THEN 0 ELSE @], t, "raised")

\* As device_flow_result, but a transport failure escapes as an exception.
device_flow_result_raises(s, t, cause, tok) ==
    LET s0 == [s EXCEPT !.task[t].interval = 0]
        s1 == Traced(s0, t, [s0 EXCEPT !.task[t].df_cause = cause,
                                       !.task[t].df_start = 0,
                                       !.task[t].df_expires = 0,
                                       !.task[t].log =
                                           IF tok # None THEN Append(@, "token") ELSE @])
    IN  IF cause = "transport"
        THEN raise_out(s1, t)
        ELSE IF s.task[t].kind = "ensure"
        THEN ensure_return(s1, t, IF tok # None THEN "true" ELSE "false")
        ELSE Return(s1, t, tok)

\* device_flow_auth returns tok to its caller (line 664, or the task itself).
device_flow_result(s, t, cause, tok) ==
    LET s0 == [s EXCEPT !.task[t].interval = 0]
        s1 == Traced(s0, t, [s0 EXCEPT !.task[t].df_cause = cause,
                                       !.task[t].df_start = 0,
                                       !.task[t].df_expires = 0,
                                       !.task[t].log =
                                           IF tok # None THEN Append(@, "token") ELSE @])
    IN  IF s.task[t].kind = "ensure"
        THEN ensure_return(s1, t, IF tok # None THEN "true" ELSE "false")
        ELSE Return(s1, t, tok)

\* Lines 504-515: the device-authorization POST is sent; a missing endpoint
\* makes session.post raise, which line 605 turns into None.
device_flow_request(s, t) ==
    IF ~s.mgr.device_auth_endpoint
    THEN device_flow_result(s, t, "no_endpoint", None)
    ELSE SetPc(Ev([s EXCEPT !.task[t].posted = TRUE], t, "device_post"), t, "df_post")

\* Lines 499-502.
device_flow_auth(s, t) ==
    IF ~s.mgr.device_auth_endpoint
    THEN SetPc(Ev(Ev(s, t, "device"), t, "get"), t, "df_discover")
    ELSE device_flow_request(Ev(s, t, "device"), t)

\* refresh_token returns tok to its caller (lines 657-663, or the task itself).
refresh_result(s, t, cause, tok) ==
    LET s1 == Traced(s, t, [s EXCEPT !.task[t].rf_cause = cause,
                                     !.task[t].log =
                                         IF tok # None THEN Append(@, "token") ELSE @])
    IN  IF s.task[t].kind = "ensure"
        THEN IF tok # None
             THEN ensure_return(s1, t, "true")
             ELSE device_flow_auth(s1, t)
        ELSE Return(s1, t, tok)

\* As refresh_unlock, but the refresh guard stays taken.
refresh_unlock_leak(s, t, cause, tok) ==
    refresh_result(s, t, cause, tok)

\* Leaving `async with self._refresh_lock` with a return value.
refresh_unlock(s, t, cause, tok) ==
    refresh_result([s EXCEPT !.refresh_lock = 0], t, cause, tok)

\* Lines 406-415: the refresh POST is sent with the refresh token held now.
refresh_request(s, t) ==
    IF ~s.mgr.token_endpoint
    THEN refresh_unlock(s, t, "no_endpoint", None)
    ELSE LET s1 == Ev([s EXCEPT !.task[t].rposted = TRUE], t, "refresh_post")
         IN  SetPc(Traced(s1, t, [s1 EXCEPT !.task[t].sent_rt = s.mgr.refresh_token]),
                   t, "rf_post")

\* As refresh_locked, without the double check of the held token.
refresh_locked_nocheck(s, t) ==
    LET s1 == [s EXCEPT !.refresh_lock = t]
    IN  IF ~s.mgr.token_endpoint
        THEN SetPc(Ev(s1, t, "get"), t, "rf_discover")
        ELSE refresh_request(s1, t)

\* Lines 392-404: the guard is taken; the double check.
refresh_locked(s, t) ==
    LET s1 == [s EXCEPT !.refresh_lock = t]
    IN  IF s.mgr.access_token # None
           /\ check_token_expiry(s.mgr, s.mgr.access_token, s.now).is_valid
        THEN refresh_unlock(s1, t, "cached", s.mgr.access_token)
        ELSE IF ~s.mgr.token_endpoint
             THEN SetPc(Ev(s1, t, "get"), t, "rf_discover")
             ELSE refresh_request(s1, t)

\* Lines 387-392.
refresh_token(s, t) ==
    LET s1 == Ev(s, t, "refresh")
    IN  IF s.mgr.refresh_token = None
        THEN refresh_result(s1, t, "no_refresh_token", None)
        ELSE IF s.refresh_lock = 0
             THEN refresh_locked(s1, t)
             ELSE SetPc([s1 EXCEPT !.task[t].waited = TRUE], t, "rf_wait")

\* As refresh_response, but the identity is left as it was.
refresh_response_stale(s, t, r, disk_ok) ==
    IF r.status = 0
    THEN refresh_unlock(s, t, "transport", None)
    ELSE IF r.status # 200
    THEN refresh_unlock(s, t, "non200", None)
    ELSE IF ~r.json
    THEN refresh_unlock(s, t, "bad_json", None)
    ELSE LET m1 == [s.mgr EXCEPT
                       !.access_token = r.access_token,
                       !.refresh_token = IF r.refresh_token # None
                                         THEN r.refresh_token ELSE @]
             s1 == [s EXCEPT !.mgr = m1,
                             !.kanopy = save_token(@, r, disk_ok)]
         IN  IF ~disk_ok
             THEN refresh_unlock(s1, t,
                                 IF r.access_token = None
                                 THEN "save_failed_no_access_token" ELSE "save_failed",
                                 None)
             ELSE refresh_unlock(s1, t,
                                 IF r.access_token = None THEN "no_access_token" ELSE "ok",
                                 m1.access_token)

\* As refresh_response, but a non-200 answer escapes as an exception.
refresh_response_raises(s, t, r, disk_ok) ==
    IF r.status = 0
    THEN refresh_unlock(s, t, "transport", None)
    ELSE IF r.status # 200
    THEN raise_out(Traced(s, t, [s EXCEPT !.task[t].rf_cause = "non200"]), t)
    ELSE IF ~r.json
    THEN refresh_unlock(s, t, "bad_json", None)
    ELSE LET m1 == [s.mgr EXCEPT
                       !.access_token = r.access_token,
                       !.refresh_token = IF r.refresh_token # None
                                         THEN r.refresh_token ELSE @,
                       !.user_info = extract_user_info(s.mgr, r.access_token, s.now)]
             s1 == [s EXCEPT !.mgr = m1,
                             !.kanopy = save_token(@, r, disk_ok)]
         IN  IF ~disk_ok
             THEN refresh_unlock(s1, t, "save_failed", None)
             ELSE refresh_unlock(s1, t,
                                 IF r.access_token = None THEN "no_access_token" ELSE "ok",
                                 m1.access_token)

\* Lines 416-457: the answer to the refresh POST.
refresh_response(s, t, r, disk_ok) ==
    IF r.status = 0
    THEN refresh_unlock(s, t, "transport", None)
    ELSE IF r.status # 200
    THEN refresh_unlock(s, t, "non200", None)
    ELSE IF ~r.json
    THEN refresh_unlock(s, t, "bad_json", None)
    ELSE LET m1 == [s.mgr EXCEPT
                       !.access_token = r.access_token,
                       !.refresh_token = IF r.refresh_token # None
                                         THEN r.refresh_token ELSE @,
                       !.user_info = extract_user_info(s.mgr, r.access_token, s.now)]
             s1 == [s EXCEPT !.mgr = m1,
                             !.kanopy = save_token(@, r, disk_ok)]
         IN  IF ~disk_ok
             THEN refresh_unlock(s1, t,
                                 IF r.access_token = None
                                 THEN "save_failed_no_access_token" ELSE "save_failed",
                                 None)
             ELSE refresh_unlock(s1, t,
                                 IF r.access_token = None THEN "no_access_token" ELSE "ok",
                                 m1.access_token)

\* As ensure_probe, but a Kanopy hit does not end the call.
ensure_probe_noshort(s, t) ==
    LET k == check_kanopy_token(s.mgr, s.kanopy, s.now)
        s1 == Ev([s EXCEPT !.mgr = k.mgr], t, "kanopy")
        s1t == IF k.token # None THEN Ev(s1, t, "token") ELSE s1
        e == check_evergreen_token(k.mgr, s.evergreen, s.now)
        s2 == Ev([s1t EXCEPT !.mgr = e.mgr], t, "evergreen")
    IN  IF e.token # None
        THEN ensure_return(Ev(s2, t, "token"), t, "true")
        ELSE IF e.mgr.refresh_token # None
        THEN refresh_token(s2, t)
        ELSE device_flow_auth(s2, t)

\* Lines 642-664 up to the first suspension: the probes, then refresh or
\* the device flow.
ensure_probe(s, t) ==
    LET k == check_kanopy_token(s.mgr, s.kanopy, s.now)
        s1 == Ev([s EXCEPT !.mgr = k.mgr], t, "kanopy")
        e == check_evergreen_token(k.mgr, s.evergreen, s.now)
        s2 == Ev([s1 EXCEPT !.mgr = e.mgr], t, "evergreen")
    IN  IF k.token # None
        THEN ensure_return(Ev(s1, t, "token"), t, "true")
        ELSE IF e.token # None
        THEN ensure_return(Ev(s2, t, "token"), t, "true")
        ELSE IF e.mgr.refresh_token # None
        THEN refresh_token(s2, t)
        ELSE device_flow_auth(s2, t)

\* As ensure_body, but the authentication guard is not taken.
ensure_body_nolock(s, t) ==
    LET s1 == Ev(s, t, "mem")
    IN  IF s.mgr.access_token # None
           /\ check_token_expiry(s.mgr, s.mgr.access_token, s.now).is_valid
        THEN ensure_return(Ev(s1, t, "token"), t, "true")
        ELSE IF ~s.mgr.jwks_client
        THEN SetPc(Ev(Ev(s1, t, "discover"), t, "get"), t, "ea_discover")
        ELSE ensure_probe(s1, t)

\* As ensure_body, without the in-memory check.
ensure_body_nofast(s, t) ==
    LET s1 == Ev([s EXCEPT !.auth_lock = t], t, "mem")
    IN  IF ~s.mgr.jwks_client
        THEN SetPc(Ev(Ev(s1, t, "discover"), t, "get"), t, "ea_discover")
        ELSE ensure_probe(s1, t)

\* Lines 624-640: the guard is taken; the in-memory check; discovery.
ensure_body(s, t) ==
    LET s1 == Ev([s EXCEPT !.auth_lock = t], t, "mem")
    IN  IF s.mgr.access_token # None
           /\ check_token_expiry(s.mgr, s.mgr.access_token, s.now).is_valid
        THEN ensure_return(Ev(s1, t, "token"), t, "true")
        ELSE IF ~s.mgr.jwks_client
        THEN SetPc(Ev(Ev(s1, t, "discover"), t, "get"), t, "ea_discover")
        ELSE ensure_probe(s1, t)

\* Lines 517-548: the answer to the device-authorization POST.
device_response(s, t, r) ==
    IF ~r.ok
    THEN device_flow_result(s, t, "request_failed", None)
    ELSE LET s1 == [s EXCEPT !.task[t].interval =
                                 IF r.interval = <<>> THEN DefaultInterval
                                 ELSE r.interval[1]]
         IN  SetPc(Traced(s1, t, [s1 EXCEPT !.task[t].df_start = s.now,
                                            !.task[t].df_expires = r.expires_in]),
                   t, "df_sleep")

\* Lines 548-558: the sleep is over and the poll POST is sent; a missing
\* token endpoint makes session.post raise, which line 605 turns into None.
poll_request(s, t) ==
    LET s0 == [s EXCEPT !.now = @ + s.task[t].interval]
        s1 == Ev(s0, t, "poll")
    IN  IF ~s.mgr.token_endpoint
        THEN device_flow_result(s0, t, "no_endpoint", None)
        ELSE SetPc(Traced(s1, t, [s1 EXCEPT !.task[t].slept =
                                      Append(@, s.task[t].interval)]),
                   t, "df_poll")

\* As poll_outcome, but an error code other than slow_down keeps the flow
\* polling.
poll_outcome_lenient(s, t, r, disk_ok) ==
    IF r.status = 0
    THEN device_flow_result(s, t, "transport", None)
    ELSE IF r.status = 200
    THEN LET m1 == [s.mgr EXCEPT
                       !.access_token = r.access_token,
                       !.refresh_token = r.refresh_token,
                       !.user_info = extract_user_info(s.mgr, r.access_token, s.now)]
             s1 == [s EXCEPT !.mgr = m1, !.kanopy = save_token(@, r, disk_ok)]
         IN  IF ~disk_ok
             THEN device_flow_result(s1, t, "save_failed", None)
             ELSE device_flow_result(s1, t, "granted", m1.access_token)
    ELSE IF ~r.json
    THEN device_flow_result(s, t, "unparseable", None)
    ELSE IF r.error = "slow_down"
    THEN SetPc([s EXCEPT !.task[t].interval = @ + SlowDownStep], t, "df_sleep")
    ELSE SetPc(s, t, "df_sleep")

\* Lines 559-607: what the answer to a poll POST makes the flow do.
poll_outcome(s, t, r, disk_ok) ==
    IF r.status = 0
    THEN device_flow_result(s, t, "transport", None)
    ELSE IF r.status = 200
    THEN LET m1 == [s.mgr EXCEPT
                       !.access_token = r.access_token,
                       !.refresh_token = r.refresh_token,
                       !.user_info = extract_user_info(s.mgr, r.access_token, s.now)]
             s1 == [s EXCEPT !.mgr = m1, !.kanopy = save_token(@, r, disk_ok)]
         IN  IF ~disk_ok
             THEN device_flow_result(s1, t, "save_failed", None)
             ELSE device_flow_result(s1, t, "granted", m1.access_token)
    ELSE IF ~r.json
    THEN device_flow_result(s, t, "unparseable", None)
    ELSE IF r.error = "authorization_pending"
    THEN SetPc(s, t, "df_sleep")
    ELSE IF r.error = "slow_down"
    THEN SetPc([s EXCEPT !.task[t].interval = @ + SlowDownStep], t, "df_sleep")
    ELSE IF r.error = "expired_token"
    THEN device_flow_result(s, t, "expired_token", None)
    ELSE device_flow_result(s, t, "denied", None)

\* Lines 556-607: the answer to a poll POST arrives.
poll_response(s, t, r, disk_ok) ==
    poll_outcome(Traced(s, t, [s EXCEPT !.task[t].replies =
                                   Append(@, [status |-> r.status, json |-> r.json,
                                              error |-> r.error])]),
                 t, r, disk_ok)

\* As discovery_response, but a failure is swallowed and the caller goes on.
discovery_response_swallow(s, t, r) ==
    LET s1 == IF r.ok THEN [s EXCEPT !.mgr = initialize_endpoints(@, r)]
              ELSE Ev(s, t, "get_failed")
    IN  CASE s.task[t].pc = "ea_discover" -> ensure_probe(s1, t)
          [] s.task[t].pc = "rf_discover" -> refresh_request(s1, t)
          [] OTHER -> device_flow_request(s1, t)

\* Lines 74-117 at each of the three call sites (640, 404, 502): a failure
\* is re-raised; a document sets the endpoints and the caller goes on.
discovery_response(s, t, r) ==
    IF ~r.ok
    THEN raise_out(Ev(s, t, "get_failed"), t)
    ELSE LET s1 == [s EXCEPT !.mgr = initialize_endpoints(@, r)]
         IN  CASE s.task[t].pc = "ea_discover" -> ensure_probe(s1, t)
               [] s.task[t].pc = "rf_discover" -> refresh_request(s1, t)
               [] OTHER -> device_flow_request(s1, t)

\* ------------------------------------------ EvergreenRestClient._request
\* The REST client, built with the manager and its access token as bearer
\* token, sending one request.  rest holds
\*   pc       "idle", "sent" (awaiting the response), "try1" and "try2"
\*            (awaiting the manager's refresh_token() in _try_refresh_token,
\*            called from the response check and from the except handler),
\*            "done"
\*   retry    the _retry argument of the _request call in progress
\*   armed    whether that call runs inside the try block of an outer
\*            _request call, whose except handler sees what it raises
\*   sends    how often the request went out
\*   statuses the status of each response
\*   reauth   what each refresh_token() call of the manager returned
\*   bearer   the bearer token of the client
\*   result   "pending", "success" or "raised"
RestTask == Second
RestStatuses == {200, 401, 403, 500}

IdleRest(hm) ==
    [pc |-> "idle", has_manager |-> hm, bearer |-> None, retry |-> TRUE,
     armed |-> FALSE, sends |-> 0, statuses |-> <<>>, reauth |-> <<>>,
     result |-> "pending"]

\* refresh_token() is declared to return Optional[str] and returns the new
\* access token itself, never a mapping.
ReturnsMapping == FALSE

\* _request leaves with the ClientResponseError (line 155).
rest_raise(s, r) ==
    [st |-> s, rest |-> [r EXCEPT !.pc = "done", !.result = "raised"]]

\* _try_refresh_token calls the manager's refresh_token() (line 112), which
\* runs as the manager's code up to its first await.
rest_start_refresh(s, r, site) ==
    [st |-> refresh_token([s EXCEPT !.task[RestTask] =
                                [IdleTask EXCEPT !.kind = "refresh"]], RestTask),
     rest |-> [r EXCEPT !.pc = site]]

\* The except handler (lines 152-155) for a 401 of a call with _retry set:
\* _try_refresh_token once more; it returns False at once without a
\* manager or a bearer token (lines 107-108), and the error is raised.
rest_handler(s, r) ==
    IF r.has_manager /\ r.bearer # None
    THEN rest_start_refresh(s, r, "try2")
    ELSE rest_raise(s, r)

\* _try_refresh_token succeeded (lines 114-119) and _request calls itself
\* with _retry=False (lines 138, 154); a call made from the try block stays
\* under the outer except handler.
rest_resend(s, r, tok) ==
    [st |-> s,
     rest |-> [r EXCEPT !.bearer = tok, !.retry = FALSE, !.armed = (r.pc = "try1"),
                        !.sends = @ + 1, !.pc = "sent"]]

\* refresh_token() has returned to _try_refresh_token (lines 112-122): None
\* is falsy, an exception is caught, and subscripting the returned string
\* with "access_token" raises a TypeError that is caught as well; each ends
\* in False.  After a False at the response check raise_for_status() raises
\* the 401 (line 140), which the except handler takes up.
rest_refresh_done(s, r0) ==
    LET ret == s.task[RestTask].result
        r == [r0 EXCEPT !.reauth = Append(@, ret)]
    IN  IF ret \notin {None, "raised"} /\ ReturnsMapping
        THEN rest_resend(s, r, ret)
        ELSE IF r.pc = "try1"
             THEN rest_handler(s, r)
             ELSE rest_raise(s, r)

\* _request sends (lines 128-135).
rest_send(s, r) ==
    [st |-> s, rest |-> [r EXCEPT !.pc = "sent", !.sends = @ + 1]]

\* The response arrives (lines 137-155).  Only a 401 of a call with _retry
\* set leads to _try_refresh_token; any other status of 400 or more is
\* raised by raise_for_status(), and the except handler of an outer call
\* with _retry set takes up a 401 raised by the call it made.
rest_response(s, r0, status) ==
    LET r == [r0 EXCEPT !.statuses = Append(@, status)]
    IN  IF status = 401 /\ r.retry
        THEN IF r.has_manager /\ r.bearer # None
             THEN rest_start_refresh(s, r, "try1")
             ELSE rest_handler(s, r)
        ELSE IF status < 400
             THEN [st |-> s, rest |-> [r EXCEPT !.pc = "done", !.result = "success"]]
             ELSE IF status = 401 /\ r.armed
                  THEN rest_handler(s, [r EXCEPT !.retry = TRUE, !.armed = FALSE])
                  ELSE rest_raise(s, r)

\* ------------------------------------------- initiate_auth_evergreen
\* The re-authentication tool of the MCP server.  tool holds
\*   pc        "idle", "starting" (awaiting initiate_device_flow()),
\*             "sleeping" (in asyncio.sleep(interval)), "polling" (awaiting
\*             poll_device_flow()), "done"
\*   interval, expires_in, start_time, deadline   the tool's locals
\*   clock     loop.time(), the event loop's monotonic clock
\*   skew      how far the system's wall clock is off the monotonic one
\*   started   how initiate_device_flow() ended: "unset", "data", "auth_error"
\*   last      how the last poll_device_flow() ended: "unset", "token",
\*             "pending", "slow_down", "auth_error"
\*   granted   the access token of the token data a poll returned
\*   client    evg_ctx.client: its bearer token and the calls made on it
\*   status    the "status" of the JSON the tool returned ("unset": none yet)
ToolDefaultInterval == 5
ToolDefaultExpiresIn == 300
ToolSlowDownStep == 5
\* interval and expires_in of the device data, where present.
ToolInterval == 2
ToolExpiresIn == 12
\* A poll takes up to this long; the wall clock is set by up to this much.
ToolLatency == 1
ToolSkew == 400

IdleTool ==
    [pc |-> "idle", has_manager |-> FALSE,
     interval |-> 0, expires_in |-> 0, start_time |-> 0, deadline |-> 0,
     clock |-> 0, skew |-> 0, started |-> "unset", last |-> "unset",
     granted |-> None, client |-> [bearer_token |-> "a_old", calls |-> <<>>],
     status |-> "unset"]

\* Answers to the device-authorization POST behind initiate_device_flow().
ToolStartResponses ==
    {[ok |-> TRUE, interval |-> i, expires_in |-> e] :
        i \in {<<>>, <<ToolInterval>>}, e \in {<<>>, <<ToolExpiresIn>>}} \cup
    {[ok |-> FALSE, interval |-> <<>>, expires_in |-> <<>>]}

\* initiate_device_flow(): the device data of the authorization server, or
\* OIDCAuthenticationError when the request fails.
initiate_device_flow(r) ==
    IF r.ok
    THEN [kind |-> "data", interval |-> r.interval, expires_in |-> r.expires_in]
    ELSE [kind |-> "auth_error", interval |-> <<>>, expires_in |-> <<>>]

\* poll_device_flow(device_code), one poll: the token data on HTTP 200,
\* None while the authorization is pending (a 401 counts as pending),
\* DeviceFlowSlowDown on slow_down, OIDCAuthenticationError on anything else.
poll_device_flow(r) ==
    CASE r.status = 200 -> [kind |-> "token", access_token |-> r.access_token]
      [] r.status = 401 -> [kind |-> "pending", access_token |-> None]
      [] r.status # 0 /\ r.json /\ r.error = "authorization_pending" ->
            [kind |-> "pending", access_token |-> None]
      [] r.status # 0 /\ r.json /\ r.error = "slow_down" ->
            [kind |-> "slow_down", access_token |-> None]
      [] OTHER -> [kind |-> "auth_error", access_token |-> None]

\* return json.dumps({"status": ...}) (lines 357, 375, 423, 440, 465).
tool_return(u, status) == [u EXCEPT !.pc = "done", !.status = status]

\* while loop.time() < deadline (line 407), and the timeout after the loop
\* (lines 464-474).
tool_loop(u) ==
    IF u.clock < u.deadline
    THEN [u EXCEPT !.pc = "sleeping"]
    ELSE tool_return(u, "timeout")

\* The tool up to its first await (lines 353-373).
tool_call(u) ==
    IF ~u.has_manager
    THEN tool_return(u, "error")
    ELSE [u EXCEPT !.pc = "starting"]

\* initiate_device_flow() has ended (lines 373-407).
tool_started(u, d) ==
    IF d.kind = "auth_error"
    THEN tool_return([u EXCEPT !.started = "auth_error"], "error")
    ELSE LET expires_in == IF d.expires_in = <<>> THEN ToolDefaultExpiresIn
                           ELSE d.expires_in[1]
         IN  tool_loop([u EXCEPT
                 !.started = "data",
                 !.interval = IF d.interval = <<>> THEN ToolDefaultInterval
                              ELSE d.interval[1],
                 !.expires_in = expires_in,
                 !.start_time = u.clock,
                 !.deadline = u.clock + expires_in])

\* asyncio.sleep(interval) is over and the poll is under way (lines
\* 408-411); meanwhile the wall clock may have been set.
tool_sleep(u, late, skew) ==
    [u EXCEPT !.pc = "polling", !.clock = @ + u.interval + late, !.skew = skew]

\* As tool_poll_result, but a slow_down ends the flow with an error.
tool_poll_result_hasty(u, p) ==
    CASE p.kind = "token" ->
            tool_return([u EXCEPT !.last = "token", !.granted = p.access_token,
                                  !.client = [bearer_token |-> p.access_token,
                                              calls |-> u.client.calls \o <<"close", "connect">>]],
                        "success")
      [] p.kind = "slow_down" ->
            tool_return([u EXCEPT !.last = "slow_down"], "error")
      [] p.kind = "auth_error" ->
            tool_return([u EXCEPT !.last = "auth_error"], "error")
      [] OTHER -> tool_loop([u EXCEPT !.last = "pending"])

\* poll_device_flow() has ended (lines 411-462).
tool_poll_result(u, p) ==
    CASE p.kind = "token" ->
            tool_return([u EXCEPT !.last = "token", !.granted = p.access_token,
                                  !.client = [bearer_token |-> p.access_token,
                                              calls |-> u.client.calls \o <<"close", "connect">>]],
                        "success")
      [] p.kind = "slow_down" ->
            tool_loop([u EXCEPT !.last = "slow_down", !.interval = @ + ToolSlowDownStep])
      [] p.kind = "auth_error" ->
            tool_return([u EXCEPT !.last = "auth_error"], "error")
      [] OTHER -> tool_loop([u EXCEPT !.last = "pending"])

\* ------------------------------------------------------------ actions
\* The manager after __init__ (lines 61-72), no call made yet.
Constructed ==
    /\ mgr = [access_token |-> None, refresh_token |-> None, user_info |-> "empty",
              jwks_client |-> FALSE, token_endpoint |-> FALSE,
              device_auth_endpoint |-> FALSE]
    /\ task = [t \in Tasks |-> IdleTask]
    /\ auth_lock = 0
    /\ refresh_lock = 0
    /\ now = 0

\* Every task may call; the files hold nothing valid.
Init ==
    /\ Constructed
    /\ disk = IdleDisk(FALSE)
    /\ rest = IdleRest(FALSE)
    /\ tool = IdleTool
    /\ kanopy \in {AbsentFile, OkFile("a_old", "r1")}
    /\ evergreen = AbsentFile
    /\ setup = [active |-> Tasks, horizon |-> MaxNow, trace |-> FALSE]

\* One traced call among the calls of one other task; any files.
InitCall ==
    /\ Constructed
    /\ disk = IdleDisk(FALSE)
    /\ rest = IdleRest(FALSE)
    /\ tool = IdleTool
    /\ kanopy \in KanopyFiles
    /\ evergreen \in EvergreenFiles
    /\ setup = [active |-> {Observer, Second}, horizon |-> MaxNow, trace |-> TRUE]

\* A task calls ensure_authenticated(); it runs on if the guard is free.
CallEnsure(t) ==
    /\ t \in setup.active
    /\ task[t].pc = "idle"
    /\ LET s == [St EXCEPT !.task[t].kind = "ensure"]
       IN  IF auth_lock = 0
           THEN Commit(ensure_body(s, t))
           ELSE Commit(SetPc([s EXCEPT !.task[t].waited = TRUE], t, "ea_wait"))

\* A waiter obtains the released authentication guard.
AcquireAuth(t) ==
    /\ task[t].pc = "ea_wait"
    /\ auth_lock = 0
    /\ Commit(ensure_body(St, t))

\* A task calls refresh_token() directly.
CallRefresh(t) ==
    /\ t \in setup.active
    /\ task[t].pc = "idle"
    /\ Commit(refresh_token([St EXCEPT !.task[t].kind = "refresh"], t))

\* A waiter obtains the released refresh guard.
AcquireRefresh(t) ==
    /\ task[t].pc = "rf_wait"
    /\ refresh_lock = 0
    /\ Commit(refresh_locked(St, t))

\* A task calls is_authenticated() (a synchronous read: only the Observer's
\* call is kept).
CallIsAuthenticated(t) ==
    /\ t = Observer
    /\ task[t].pc = "idle"
    /\ LET s == [St EXCEPT !.task[t].kind = "is_auth"]
           s1 == Traced(s, t, [s EXCEPT !.task[t].seen =
                                   <<mgr.access_token, mgr.jwks_client, now>>])
       IN  Commit(Return(s1, t, IF is_authenticated(mgr, now) THEN "true" ELSE "false"))

DiscoveryResponse(t) ==
    /\ task[t].pc \in {"ea_discover", "rf_discover", "df_discover"}
    /\ \E r \in DiscoveryResponses : Commit(discovery_response(St, t, r))

RefreshResponse(t) ==
    /\ task[t].pc = "rf_post"
    /\ \E r \in RefreshResponses, d \in DiskOutcomes : Commit(refresh_response(St, t, r, d))

DeviceResponse(t) ==
    /\ task[t].pc = "df_post"
    /\ \E r \in DeviceResponses : Commit(device_response(St, t, r))

PollRequest(t) ==
    /\ task[t].pc = "df_sleep"
    /\ now + task[t].interval <= setup.horizon
    /\ Commit(poll_request(St, t))

PollResponse(t) ==
    /\ task[t].pc = "df_poll"
    /\ \E r \in PollResponses, d \in DiskOutcomes : Commit(poll_response(St, t, r, d))

Next ==
    \E t \in Tasks :
        \/ CallEnsure(t)
        \/ AcquireAuth(t)
        \/ CallRefresh(t)
        \/ AcquireRefresh(t)
        \/ CallIsAuthenticated(t)
        \/ DiscoveryResponse(t)
        \/ RefreshResponse(t)
        \/ DeviceResponse(t)
        \/ PollRequest(t)
        \/ PollResponse(t)

Spec == Init /\ [][Next]_vars

SpecCall == InitCall /\ [][Next]_vars

\* A single caller with no valid token file, followed through a long device flow.
InitFlow ==
    /\ Constructed
    /\ disk = IdleDisk(FALSE)
    /\ rest = IdleRest(FALSE)
    /\ tool = IdleTool
    /\ kanopy \in {AbsentFile, OkFile("a_old", "r1")}
    /\ evergreen = AbsentFile
    /\ setup = [active |-> {Observer}, horizon |-> MaxFlowNow, trace |-> TRUE]

NextFlow ==
    \/ CallEnsure(Observer)
    \/ DiscoveryResponse(Observer)
    \/ RefreshResponse(Observer)
    \/ DeviceResponse(Observer)
    \/ PollRequest(Observer)
    \/ PollResponse(Observer)

SpecFlow == InitFlow /\ [][NextFlow]_vars

\* One call on any token files, among them files that carry an expires_at
\* at odds with the exp claim of their access token.
ProbeKanopyFiles ==
    KanopyFiles \cup {OkFileExp("a_long", "r1", 30), OkFileExp("a_old", "r1", 1000)}
ProbeEvergreenFiles == EvergreenFiles \cup {BadFile}

InitProbe ==
    /\ Constructed
    /\ disk = IdleDisk(FALSE)
    /\ rest = IdleRest(FALSE)
    /\ tool = IdleTool
    /\ kanopy \in ProbeKanopyFiles
    /\ evergreen \in ProbeEvergreenFiles
    /\ setup = [active |-> {Observer}, horizon |-> MaxNow, trace |-> TRUE]

SpecProbe == InitProbe /\ [][NextFlow]_vars

\* ------------------------------------------- saving, seen from the disk
manager == <<mgr, task, auth_lock, refresh_lock, kanopy, evergreen, now, setup,
            rest, tool>>

\* Processes about to save; the token file is absent or an earlier run's.
InitSave ==
    /\ Constructed
    /\ kanopy = AbsentFile
    /\ evergreen = AbsentFile
    /\ setup = [active |-> {}, horizon |-> 0, trace |-> FALSE]
    /\ disk \in {IdleDisk(FALSE), IdleDisk(TRUE)}
    /\ rest = IdleRest(FALSE)
    /\ tool = IdleTool

SaveOpen(p) ==
    /\ disk.proc[p].pc = "idle"
    /\ \E ok \in DiskOutcomes : disk' = save_open(disk, p, ok)
    /\ UNCHANGED manager

SaveWrite(p) ==
    /\ disk.proc[p].pc = "writing"
    /\ \E ok \in DiskOutcomes : disk' = save_write(disk, p, ok)
    /\ UNCHANGED manager

SaveReplace(p) ==
    /\ disk.proc[p].pc = "written"
    /\ \E ok \in DiskOutcomes : disk' = save_replace(disk, p, ok)
    /\ UNCHANGED manager

NextSave ==
    \E p \in Savers :
        \/ SaveOpen(p)
        \/ SaveWrite(p)
        \/ SaveReplace(p)

SpecSave == InitSave /\ [][NextSave]_vars

\* ------------------------------------------------ call after call
\* One traced call among the calls another task makes one after another.
InitAgain ==
    /\ Constructed
    /\ disk = IdleDisk(FALSE)
    /\ rest = IdleRest(FALSE)
    /\ tool = IdleTool
    /\ kanopy = OkFile("a_old", "r1")
    /\ evergreen \in {AbsentFile, OkFile("a_old", "r2")}
    /\ setup = [active |-> {Observer, Second}, horizon |-> MaxNow, trace |-> TRUE]

\* A task whose call has returned is free for its next call.
Again(t) ==
    /\ t \in setup.active \ {Observer}
    /\ task[t].pc = "done"
    /\ Commit([St EXCEPT !.task[t] = IdleTask])

\* The traced call is a direct refresh_token(); the other task calls
\* ensure_authenticated().
NextAgain ==
    \/ CallRefresh(Observer)
    \/ CallEnsure(Second)
    \/ Again(Second)
    \/ \E t \in Tasks :
          \/ AcquireRefresh(t)
          \/ DiscoveryResponse(t)
          \/ RefreshResponse(t)
          \/ DeviceResponse(t)
          \/ PollRequest(t)
          \/ PollResponse(t)

SpecAgain == InitAgain /\ [][NextAgain]_vars

\* ------------------------------------------------- the REST client
\* The server authenticates at startup and builds the client with the
\* manager's access token; a client without a manager has an API key.
InitRest ==
    /\ Constructed
    /\ disk = IdleDisk(FALSE)
    /\ tool = IdleTool
    /\ kanopy \in {AbsentFile, OkFile("a_old", "r1"), OkFile("a61", "r1")}
    /\ evergreen = AbsentFile
    /\ \E hm \in BOOLEAN :
        /\ rest = IdleRest(hm)
        /\ setup = [active |-> IF hm THEN {Observer} ELSE {},
                    horizon |-> MaxNow, trace |-> FALSE]

CommitRest(x) ==
    /\ CommitManager(x.st)
    /\ rest' = x.rest
    /\ UNCHANGED <<setup, disk, tool>>

RestSend ==
    /\ rest.pc = "idle"
    /\ IF rest.has_manager
       THEN /\ task[Observer].pc = "done"
            /\ task[Observer].result = "true"
            /\ CommitRest(rest_send(St, [rest EXCEPT !.bearer = mgr.access_token]))
       ELSE CommitRest(rest_send(St, rest))

RestResponse ==
    /\ rest.pc = "sent"
    /\ \E status \in RestStatuses : CommitRest(rest_response(St, rest, status))

RestRefreshDone ==
    /\ rest.pc \in {"try1", "try2"}
    /\ task[RestTask].pc = "done"
    /\ CommitRest(rest_refresh_done(St, rest))

\* Time passes between startup and the request.
RestLater ==
    /\ rest.pc = "idle"
    /\ now < setup.horizon
    /\ now' = now + 1
    /\ UNCHANGED <<mgr, task, auth_lock, refresh_lock, kanopy, evergreen, setup,
                   disk, rest, tool>>

NextRest ==
    \/ NextFlow
    \/ RestSend
    \/ RestResponse
    \/ RestRefreshDone
    \/ RestLater
    \/ DiscoveryResponse(RestTask)
    \/ RefreshResponse(RestTask)

SpecRest == InitRest /\ [][NextRest]_vars

\* ------------------------------------------ the re-authentication tool
\* The server runs, in OIDC mode or with an API key, and the tool is called.
InitTool ==
    /\ Constructed
    /\ disk = IdleDisk(FALSE)
    /\ rest = IdleRest(FALSE)
    /\ kanopy = AbsentFile
    /\ evergreen = AbsentFile
    /\ setup = [active |-> {}, horizon |-> 0, trace |-> FALSE]
    /\ \E hm \in BOOLEAN : tool = [IdleTool EXCEPT !.has_manager = hm]

others == <<mgr, task, auth_lock, refresh_lock, kanopy, evergreen, now, setup,
            disk, rest>>

ToolCall ==
    /\ tool.pc = "idle"
    /\ tool' = tool_call(tool)
    /\ UNCHANGED others

ToolStarted ==
    /\ tool.pc = "starting"
    /\ \E r \in ToolStartResponses : tool' = tool_started(tool, initiate_device_flow(r))
    /\ UNCHANGED others

ToolSleep ==
    /\ tool.pc = "sleeping"
    /\ \E late \in 0..ToolLatency, skew \in {-ToolSkew, 0, ToolSkew} :
          tool' = tool_sleep(tool, late, skew)
    /\ UNCHANGED others

ToolPollResult ==
    /\ tool.pc = "polling"
    /\ \E r \in PollResponses : tool' = tool_poll_result(tool, poll_device_flow(r))
    /\ UNCHANGED others

NextTool ==
    \/ ToolCall
    \/ ToolStarted
    \/ ToolSleep
    \/ ToolPollResult

\* A sleep ends and an awaited call of the manager returns.
SpecTool == InitTool /\ [][NextTool]_vars /\ WF_vars(NextTool)

\* ============================================================== claims
Has(log, e) == \E i \in 1..Len(log) : log[i] = e
Events(log) == {log[i] : i \in 1..Len(log)}
StepLabels == {"mem", "discover", "kanopy", "evergreen", "refresh", "device"}
StepRank(e) ==
    CASE e = "mem" -> 1
      [] e = "discover" -> 2
      [] e = "kanopy" -> 3
      [] e = "evergreen" -> 4
      [] e = "refresh" -> 5
      [] e = "device" -> 6
      [] OTHER -> 0
\* The step of ensure_authenticated during which log[i] was recorded.
StepAt(log, i) ==
    LET before == {j \in 1..i : log[j] \in StepLabels}
    IN  IF before = {} THEN "none"
        ELSE log[CHOOSE j \in before : \A k \in before : k <= j]
AllTokens == {"a_old", "a60", "a61", "a_long", "a_forged"}
Obs == task[Observer]

\* C1: N >= 2 concurrent ensure_authenticated() calls, with no valid token
\* in memory or in any file and no successful refresh, make exactly one
\* device-authorization POST in total and all return the same outcome.
\* (Stated for calls that have all returned, each but one having waited for
\* the guard, at least one having sent the device-authorization POST, while
\* the token files are still absent.)
C1_OneFlowSameOutcome ==
    ( /\ \A t \in Tasks : task[t].kind = "ensure" /\ task[t].pc = "done"
      /\ Cardinality({t \in Tasks : ~task[t].waited}) = 1
      /\ kanopy = AbsentFile /\ evergreen = AbsentFile
      /\ \A t \in Tasks : task[t].result # "raised"
      /\ \E t \in Tasks : task[t].posted )
    => /\ Cardinality({t \in Tasks : task[t].posted}) = 1
       /\ \A t, u \in Tasks : task[t].result = task[u].result

\* C2: within one ensure_authenticated() call the steps run in the order
\* memory check, discovery, Kanopy probe, Evergreen probe, refresh, device
\* flow; the probes are never skipped by a later step; every request is sent
\* inside its own step; and the step that yields a token is the last thing
\* the call does, after which it returns true.
C2_StepOrder ==
    Obs.kind = "ensure" =>
        LET log == Obs.log
            n == Len(log)
        IN  /\ n > 0 => log[1] = "mem"
            /\ \A i, j \in 1..n :
                   (i < j /\ log[i] \in StepLabels /\ log[j] \in StepLabels)
                       => StepRank(log[i]) < StepRank(log[j])
            /\ Has(log, "evergreen") => Has(log, "kanopy")
            /\ (Has(log, "refresh") \/ Has(log, "device")) => Has(log, "evergreen")
            /\ \A i \in 1..n :
                   /\ log[i] = "refresh_post" => StepAt(log, i) = "refresh"
                   /\ log[i] \in {"device_post", "poll"} => StepAt(log, i) = "device"
                   /\ log[i] = "token" =>
                          i = n /\ Obs.pc = "done" /\ Obs.result = "true"
            /\ (Obs.pc = "done" /\ Obs.result = "true") => log[n] = "token"

\* C2 witness: a call that went through every step and returned true after
\* a granted device flow, and so sent its requests in step order.
C2_Witness ==
    /\ Obs.kind = "ensure" /\ Obs.pc = "done" /\ Obs.result = "true"
    /\ Events(Obs.log) = {"mem", "discover", "get", "kanopy", "evergreen", "refresh",
                          "refresh_post", "device", "device_post", "poll", "token"}

\* C3: _check_token_expiry accepts a token exactly when it decodes and its
\* exp is more than ExpiryBuffer seconds after now, strictly (exp = now + 60
\* is rejected, exp = now + 61 accepted); is_authenticated() answers true
\* exactly when a token is held and that check accepts it.
C3_ExpiryBuffer ==
    /\ \A tok \in AllTokens :
           check_token_expiry(mgr, tok, now).is_valid
               <=> ( /\ mgr.jwks_client /\ SigOk(tok)
                     /\ TokenExp(tok) - now > ExpiryBuffer )
    /\ (Obs.kind = "is_auth" /\ Obs.pc = "done") =>
           LET held == Obs.seen[1]
               jwks == Obs.seen[2]
               at == Obs.seen[3]
           IN  (Obs.result = "true")
                   <=> ( /\ held # None /\ jwks /\ SigOk(held)
                         /\ TokenExp(held) - at > ExpiryBuffer )

\* C3 witness: is_authenticated() answered false while holding a token whose
\* exp was exactly now + 60, in a manager able to verify signatures.
C3_Witness ==
    /\ Obs.kind = "is_auth" /\ Obs.pc = "done" /\ Obs.result = "false"
    /\ Obs.seen[1] = "a60" /\ Obs.seen[2] /\ TokenExp("a60") - Obs.seen[3] = ExpiryBuffer
    /\ check_token_expiry(mgr, "a61", 0).is_valid

\* C4: an ensure_authenticated() call that took the refresh token "r1"
\* from a Kanopy file with an expired access token, sent it to the refresh
\* endpoint and was answered HTTP 200 with a new access_token, sends no
\* device-authorization POST and returns true.
C4_RefreshAvoidsDeviceFlow ==
    ( /\ Obs.kind = "ensure" /\ Obs.sent_rt = "r1"
      /\ Obs.rf_cause \in {"ok", "save_failed"} )
    => /\ ~Has(Obs.log, "device_post")
       /\ Obs.pc = "done" => Obs.result = "true"

\* C5: a caller that enters the body of ensure_authenticated() while a valid
\* token is held in memory returns true in that same step, with the manager
\* and both token files unchanged, no request sent and no file probed.
C5_FastPath ==
    [][ \A t \in Tasks :
          ( /\ task[t].pc \in {"idle", "ea_wait"}
            /\ task'[t].kind = "ensure"
            /\ task'[t].pc \notin {"idle", "ea_wait"}
            /\ is_authenticated(mgr, now) )
          => ( /\ task'[t].pc = "done" /\ task'[t].result = "true"
               /\ mgr' = mgr /\ kanopy' = kanopy /\ evergreen' = evergreen
               /\ auth_lock' = auth_lock /\ refresh_lock' = refresh_lock
               /\ ~task'[t].posted /\ ~task'[t].rposted
               /\ (t = Observer => task'[t].log = <<"mem", "token">>) )
      ]_vars

\* C5 witness: a call returned true from the in-memory check alone, right
\* after another call had authenticated.
C5_Witness ==
    /\ Obs.kind = "ensure" /\ Obs.pc = "done" /\ Obs.result = "true"
    /\ Obs.log = <<"mem", "token">>
    /\ task[Second].kind = "ensure" /\ task[Second].pc = "done"
    /\ task[Second].result = "true"

C7_FailureReturnsFalse ==
    ( /\ Obs.kind = "ensure"
      /\ Obs.df_cause \in {"request_failed", "expired_token", "denied", "unparseable",
                           "transport", "no_endpoint", "save_failed"} )
    => (Obs.pc = "done" /\ Obs.result = "false" /\ auth_lock # Observer)

\* C7 witness: no file had a valid token, the refresh was refused, and the
\* device flow died of a timeout or network error; the call returned false.
C7_Witness ==
    /\ Obs.kind = "ensure" /\ Obs.pc = "done" /\ Obs.result = "false"
    /\ Obs.rf_cause = "non200" /\ Obs.df_cause = "transport"
    /\ Has(Obs.log, "poll")

\* C8: at no time are two refresh POSTs in flight, and a refresh POST is
\* sent only by the owner of the refresh guard; a refresh_token() caller
\* that obtains the guard while the held access token is valid returns that
\* token in the same step, with no request sent and nothing changed.
C8_SingleRefresh ==
    /\ [](\A t, u \in Tasks :
              (task[t].pc \in {"rf_post", "rf_discover"}
                  /\ task[u].pc \in {"rf_post", "rf_discover"})
              => (t = u /\ refresh_lock = t))
    /\ [][ \A t \in Tasks :
             /\ (task[t].pc # "rf_post" /\ task'[t].pc = "rf_post")
                    => (refresh_lock' = t /\ task'[t].rposted)
             /\ ( /\ task[t].pc \in {"idle", "rf_wait"}
                  /\ task'[t].kind = "refresh"
                  /\ task'[t].pc \notin {"idle", "rf_wait"}
                  /\ mgr.refresh_token # None
                  /\ is_authenticated(mgr, now) )
                => ( /\ task'[t].pc = "done"
                     /\ task'[t].result = mgr.access_token
                     /\ task'[t].rposted = task[t].rposted
                     /\ mgr' = mgr /\ kanopy' = kanopy /\ evergreen' = evergreen
                     /\ refresh_lock' = 0 )
         ]_vars

\* C8 witness: one task sent the refresh POST and obtained a valid token;
\* a refresh_token() caller that had to wait for the guard returned that
\* token without sending a POST of its own.
C8_Witness ==
    \E t, u \in Tasks :
        /\ t # u
        /\ task[u].rposted /\ task[u].pc = "done"
        /\ task[t].kind = "refresh" /\ task[t].waited /\ task[t].pc = "done"
        /\ ~task[t].rposted
        /\ task[t].result = mgr.access_token
        /\ is_authenticated(mgr, now)

\* C9: refresh_token() returns None, without raising, when no refresh token
\* is held, when the token endpoint answers a non-200 status and when the
\* POST fails or times out; inside ensure_authenticated() the call then
\* goes on to the device flow.
C9_RefreshFailureIsNone ==
    Obs.rf_cause \in {"no_refresh_token", "non200", "transport"} =>
        /\ refresh_lock # Observer
        /\ Obs.kind = "refresh" => (Obs.pc = "done" /\ Obs.result = None)
        /\ Obs.kind = "ensure" =>
               /\ Obs.rf_cause # "no_refresh_token"
               /\ Has(Obs.log, "device")
               /\ \A i \in 1..Len(Obs.log) :
                      Obs.log[i] = "refresh_post" =>
                          (i < Len(Obs.log) /\ Obs.log[i + 1] = "device")

\* C9 witness: inside ensure_authenticated() the refresh POST timed out or
\* failed and the call went on to send the device-authorization POST.
C9_Witness ==
    /\ Obs.kind = "ensure" /\ Obs.rf_cause = "transport"
    /\ Has(Obs.log, "refresh_post") /\ Has(Obs.log, "device_post")

\* C10: no poll is sent, and the flow does not sleep towards another one,
\* once the expires_in budget of the device-authorization response has
\* elapsed since the flow began.
C10_DeadlineEnforced ==
    Obs.pc \in {"df_sleep", "df_poll"} => now - Obs.df_start <= Obs.df_expires

\* A poll answer that keeps the flow pending.
IsPendingReply(r) ==
    r.status \notin {0, 200} /\ r.json /\ r.error \in {"authorization_pending", "slow_down"}
\* The number of slow_down answers among the first n.
SlowDowns(rs, n) ==
    Cardinality({i \in 1..n : IsPendingReply(rs[i]) /\ rs[i].error = "slow_down"})
\* Every poll so far came after a sleep of the interval then current:
\* the default, plus one step per slow_down answered before it.
PollSchedule ==
    /\ Len(Obs.slept) = Len(Obs.replies) + (IF Obs.pc = "df_poll" THEN 1 ELSE 0)
    /\ \A i \in 1..Len(Obs.slept) :
           Obs.slept[i] = DefaultInterval + SlowDownStep * SlowDowns(Obs.replies, i - 1)

\* C11: when every poll answer but the last was authorization_pending or
\* slow_down and the last was an HTTP 200, the flow has sent one poll per
\* answer, each after a sleep of the interval then current (raised by one
\* step per slow_down and never otherwise), and has returned the granted
\* token, which the manager holds and the token file contains.
C11_ScriptedPolls ==
    LET rs == Obs.replies
        n == Len(rs)
    IN  ( /\ Obs.kind = "ensure" /\ n > 0 /\ rs[n].status = 200
          /\ \A i \in 1..(n - 1) : IsPendingReply(rs[i]) )
        => /\ PollSchedule
           /\ Obs.pc = "done" /\ Obs.result = "true"
           /\ mgr.access_token # None
           /\ kanopy = OkFile(mgr.access_token, mgr.refresh_token)

\* A poll answer that is an HTTP error other than pending and slow_down:
\* expired_token, another or no error code, or a body that cannot be parsed.
IsTerminalReply(r) ==
    r.status \notin {0, 200} /\ (~r.json \/ r.error \notin {"authorization_pending", "slow_down"})

\* C12: the step in which a poll is answered with expired_token, with any
\* other unrecognized error code or with an unparseable body ends the device
\* flow: the call returns without a token, no further poll is sent, and the
\* manager's access token, refresh token and identity and both token files
\* are as before.
C12_TerminalPollError ==
    [][ /\ ( /\ Obs.pc = "df_poll" /\ Len(Obs'.replies) = Len(Obs.replies) + 1
             /\ IsTerminalReply(Obs'.replies[Len(Obs'.replies)]) )
           => ( /\ Obs'.pc = "done" /\ Obs'.result = "false"
                /\ Obs'.df_cause \in {"expired_token", "denied", "unparseable"}
                /\ mgr' = mgr /\ kanopy' = kanopy /\ evergreen' = evergreen
                /\ auth_lock' = 0 )
        /\ Obs.pc = "done" => (Obs'.pc = "done" /\ Obs'.slept = Obs.slept)
      ]_vars

\* C12 witness: after a pending answer the next poll was answered
\* expired_token; the call returned false, still holding the refresh token
\* it had taken from the Kanopy file.
C12_Witness ==
    /\ Obs.pc = "done" /\ Obs.result = "false" /\ Obs.df_cause = "expired_token"
    /\ Len(Obs.replies) = 2 /\ Len(Obs.slept) = 2
    /\ mgr.refresh_token = "r1" /\ mgr.access_token = None

\* C13: after a poll answered with HTTP 401 and no structured error code
\* the flow is still pending: it sleeps towards the next poll, at the same
\* interval as before.
C13_Http401IsPending ==
    LET rs == Obs.replies
        n == Len(rs)
    IN  ( /\ n > 0 /\ Len(Obs.slept) = n
          /\ rs[n].status = 401 /\ (~rs[n].json \/ rs[n].error = None) )
        => (Obs.pc = "df_sleep" /\ Obs.interval = Obs.slept[n])

\* Where a task is suspended on the network or in a sleep, not on a guard.
NetworkPcs ==
    {"ea_discover", "rf_discover", "rf_post", "df_discover", "df_post", "df_sleep", "df_poll"}

\* C14: refresh_token() called directly never takes or waits for the
\* authentication guard; the refresh guard is only ever taken inside the
\* authentication guard or alone, never the other way round; and the owner
\* of the refresh guard is always suspended on the network, the owner of the
\* authentication guard on the network or on the refresh guard, so no set of
\* calls can wait for one another in a cycle.
C14_GuardOrder ==
    /\ \A t \in Tasks :
           /\ task[t].kind = "refresh" => (auth_lock # t /\ task[t].pc # "ea_wait")
           /\ task[t].pc = "ea_wait" => (refresh_lock # t /\ auth_lock # t)
           /\ task[t].pc = "rf_wait" => refresh_lock # t
           /\ (task[t].kind = "ensure" /\ refresh_lock = t) => auth_lock = t
           /\ task[t].pc \in {"idle", "done"} => (auth_lock # t /\ refresh_lock # t)
    /\ refresh_lock # 0 => task[refresh_lock].pc \in {"rf_discover", "rf_post"}
    /\ auth_lock # 0 =>
           /\ task[auth_lock].kind = "ensure"
           /\ task[auth_lock].pc \in NetworkPcs \cup {"rf_wait"}

\* C14 witness: a direct refresh_token() call, made while the guard was
\* free, sent its POST and returned while another task was inside a device
\* flow, holding the authentication guard.
C14_Witness ==
    \E t, u \in Tasks :
        /\ task[t].kind = "refresh" /\ task[t].pc = "done"
        /\ task[t].rposted /\ ~task[t].waited
        /\ auth_lock = u /\ task[u].pc \in {"df_sleep", "df_poll"}

\* C15: the token file, if there is one, holds all the parts of one bundle
\* and nothing else: the bundle an earlier run left or the bundle of one
\* save call.
C15_FinalFileIntact ==
    disk.final # 0 => \E b \in {0} \cup Savers : disk.ino[disk.final] = Whole(b)

\* Token bundles as a token response carries them.
Bundles ==
    {[access_token |-> at, refresh_token |-> rt] :
        at \in AllTokens, rt \in {None, "r1", "r3"}}

C17_FormatErrorsAreAbsence ==
    /\ [](/\ \A f \in {AbsentFile, BadFile} :
               /\ check_kanopy_token(mgr, f, now) = [mgr |-> mgr, token |-> None]
               /\ check_evergreen_token(mgr, f, now) = [mgr |-> mgr, token |-> None]
          /\ \A tok \in {"garbage", "a_forged"} :
               /\ check_token_expiry(mgr, tok, now) = [is_valid |-> FALSE, remaining |-> 0]
               /\ extract_user_info(mgr, tok, now) = "empty")
    /\ [][ ( /\ ~Has(Obs.log, "kanopy") /\ Has(Obs'.log, "kanopy")
             /\ kanopy.state # "ok" /\ evergreen.state # "ok" )
           => ( /\ mgr'.access_token = mgr.access_token
                /\ mgr'.refresh_token = mgr.refresh_token
                /\ mgr'.user_info = mgr.user_info
                /\ ~Has(Obs'.log, "token")
                /\ Has(Obs'.log, "device")
                /\ Obs'.result # "raised" )
         ]_vars

\* C17 witness: both token files were unreadable and the call went on to
\* the device flow, the manager holding what it held.
C17_Witness ==
    /\ kanopy = BadFile /\ evergreen = BadFile
    /\ Has(Obs.log, "kanopy") /\ Has(Obs.log, "evergreen")
    /\ Obs.pc = "df_post"
    /\ mgr.access_token = None /\ mgr.user_info = "empty"

\* The Kanopy probe of the traced call returned a token.
KanopyHit ==
    \E i \in 1..(Len(Obs.log) - 1) : Obs.log[i] = "kanopy" /\ Obs.log[i + 1] = "token"

\* C18: a Kanopy token file that carries an expires_at is judged valid by
\* the probe exactly when expires_at is more than ExpiryBuffer seconds
\* away, whatever the exp claim of its access token.
C18_ExpiresAtDecides ==
    ( /\ Obs.kind = "ensure" /\ Has(Obs.log, "kanopy")
      /\ kanopy.state = "ok" /\ kanopy.access_token # None
      /\ kanopy.expires_at # <<>> )
    => (KanopyHit <=> kanopy.expires_at[1] - now > ExpiryBuffer)

\* The manager's refresh_token() handed the REST client a token.
RestReauthenticated ==
    \E i \in 1..Len(rest.reauth) : rest.reauth[i] \notin {None, "raised"}

\* C19: a REST client built with the manager, whose request is answered
\* 401 or 403, re-authenticates through the manager; when that yields a
\* token the request has gone out exactly twice, the second time with the
\* new bearer token, and otherwise it went out once and the failure was
\* raised; it never goes out more than twice.
C19_RetryOnce ==
    /\ rest.sends <= 2
    /\ ( /\ rest.pc = "done" /\ rest.has_manager
         /\ rest.statuses # <<>> /\ rest.statuses[1] \in {401, 403} )
       => /\ rest.reauth # <<>>
          /\ IF RestReauthenticated
             THEN /\ rest.sends = 2
                  /\ rest.bearer = rest.reauth[Len(rest.reauth)]
             ELSE /\ rest.sends = 1
                  /\ rest.result = "raised"

InEnsureBody ==
    {t \in Tasks : task[t].kind = "ensure" /\ task[t].pc \in NetworkPcs \cup {"rf_wait"}}

\* The tasks whose ensure_authenticated() is in its device flow.
InEnsureDeviceFlow ==
    {t \in Tasks : task[t].kind = "ensure"
                   /\ task[t].pc \in {"df_discover", "df_post", "df_sleep", "df_poll"}}

\* C21: at most one task is inside the body of ensure_authenticated(), the
\* owner of the authentication guard, and so at most one device flow
\* started by ensure_authenticated() is in progress.
C21_OneInsideEnsure ==
    /\ Cardinality(InEnsureBody) <= 1
    /\ \A t \in InEnsureBody : auth_lock = t
    /\ Cardinality(InEnsureDeviceFlow) <= 1

\* C21 witness: one task polls in the device flow of its
\* ensure_authenticated() while another, which called it too, waits for the
\* guard.
C21_Witness ==
    \E t, u \in Tasks :
        /\ InEnsureDeviceFlow = {t} /\ task[t].pc = "df_poll"
        /\ task[u].kind = "ensure" /\ task[u].pc = "ea_wait"

\* C22: whenever ensure_authenticated() returns, it returns true exactly
\* when the manager then holds an access token that is_authenticated()
\* accepts.
C22_TrueIffValid ==
    [][ \A t \in Tasks :
          ( /\ task[t].kind = "ensure"
            /\ task[t].pc # "done" /\ task'[t].pc = "done"
            /\ task'[t].result # "raised" )
          => ((task'[t].result = "true") <=> is_authenticated(mgr', now'))
      ]_vars

\* C23: a refresh_token() call that returns None on the answer to its
\* refresh POST leaves the held access token, refresh token and identity
\* and the token file as they were.
C23_FailedRefreshChangesNothing ==
    [][ \A t \in Tasks :
          ( /\ task[t].pc = "rf_post" /\ task'[t].pc # "rf_post"
            /\ ~(task'[t].pc = "done" /\ task'[t].result \notin {None, "false"}) )
          => /\ mgr'.access_token = mgr.access_token
             /\ mgr'.refresh_token = mgr.refresh_token
             /\ mgr'.user_info = mgr.user_info
             /\ kanopy' = kanopy
      ]_vars

\* C24: when the answer to a refresh POST or to a poll POST makes the call
\* return a token, the token file then holds the access token and the
\* refresh token that the manager holds.
C24_FileMatchesMemory ==
    [][ \A t \in Tasks :
          ( /\ task[t].pc \in {"rf_post", "df_poll"}
            /\ task'[t].pc = "done"
            /\ task'[t].result \notin {None, "false", "raised"} )
          => /\ kanopy'.state = "ok"
             /\ kanopy'.access_token = mgr'.access_token
             /\ kanopy'.refresh_token = mgr'.refresh_token
      ]_vars

\* Where a call of ensure_authenticated() stands before its token-file
\* probes.
BeforeProbes == {"idle", "ea_wait", "ea_discover"}

\* C25: when ensure_authenticated() runs its token-file probes while the
\* manager holds a refresh token, and no valid token is found, a refresh
\* token is still held afterwards and the call goes on to a refresh, not to
\* the device flow.
C25_ProbesKeepRefreshToken ==
    [][ \A t \in Tasks :
          ( /\ task'[t].kind = "ensure"
            /\ task[t].pc \in BeforeProbes /\ task'[t].pc \notin BeforeProbes
            /\ ~(task'[t].pc = "done" /\ task'[t].result \in {"true", "raised"})
            /\ mgr.refresh_token # None )
          => /\ mgr'.refresh_token # None
             /\ task'[t].pc \in {"rf_wait", "rf_discover", "rf_post"}
      ]_vars

\* The Evergreen probe of the traced call returned a token.
EvergreenHit ==
    \E i \in 1..(Len(Obs.log) - 1) : Obs.log[i] = "evergreen" /\ Obs.log[i + 1] = "token"

\* C26: after a token-file probe hit, the access token and the refresh
\* token held are both those of the file that was hit.
C26_OneFileOnly ==
    /\ (Obs.pc = "done" /\ KanopyHit)
       => /\ mgr.access_token = kanopy.access_token
          /\ mgr.refresh_token = kanopy.refresh_token
    /\ (Obs.pc = "done" /\ EvergreenHit)
       => /\ mgr.access_token = evergreen.access_token
          /\ mgr.refresh_token = evergreen.refresh_token

\* The discovery GETs of the traced call, by their place in its log.  A
\* failed GET ends the call, so each but the last one succeeded.
DiscoveryGets == {i \in 1..Len(Obs.log) : Obs.log[i] = "get"}

\* C27: after a discovery GET has succeeded, no discovery GET is sent.
C27_DiscoveryOnce ==
    Cardinality(DiscoveryGets) <= 1

\* C28: the identity held is always the one extracted from the access
\* token held (empty where that token cannot be decoded), and every step
\* that changes the held access token sets the identity to what
\* _extract_user_info gives for the new token.
C28_IdentityOfHeldToken ==
    /\ [](mgr.user_info \in {"empty", TokenSub(mgr.access_token)})
    /\ [][ (mgr'.access_token # mgr.access_token)
           => (mgr'.user_info = extract_user_info(mgr', mgr'.access_token, now'))
         ]_vars

\* C28 witness: a refresh_token() call adopted and saved a new access
\* token, and the identity held is that token's.
C28_Witness ==
    \E t \in Tasks :
        /\ task[t].kind = "refresh" /\ task[t].pc = "done" /\ task[t].rposted
        /\ task[t].result = "a_long"
        /\ mgr.access_token = "a_long" /\ mgr.user_info = TokenSub("a_long")
        /\ kanopy.access_token = "a_long"

\* C29: when a refresh_token() call that took the guard at once returns a
\* token on the answer to its refresh POST, the refresh token held is the
\* one of that answer or, the answer carrying none, the one the manager
\* held when the call was made.
C29_RefreshTokenRetained ==
    [][ ( /\ Obs.kind = "refresh" /\ ~Obs.waited /\ ~Has(Obs.log, "get")
          /\ Obs.pc = "rf_post" /\ Obs'.pc = "done"
          /\ Obs'.result \notin {None, "raised"} )
        => \E r \in RefreshResponses :
              /\ r.status = 200 /\ r.json /\ r.access_token = Obs'.result
              /\ mgr'.refresh_token =
                    IF r.refresh_token # None THEN r.refresh_token ELSE Obs.sent_rt
      ]_vars

\* C30: where ensure_authenticated() has run its probes on a manager
\* without a JWKS client, _check_token_expiry and _extract_user_info
\* still give, for a genuine token that has not expired, its real
\* remaining lifetime and its identity.
C30_DecodedWithoutKeys ==
    (Obs.kind = "ensure" /\ Has(Obs.log, "kanopy") /\ ~mgr.jwks_client)
    => \A tok \in {"a60", "a61", "a_long"} :
          /\ check_token_expiry(mgr, tok, now) =
                [is_valid |-> TokenExp(tok) - now > ExpiryBuffer,
                 remaining |-> TokenExp(tok) - now]
          /\ extract_user_info(mgr, tok, now) = TokenSub(tok)

====
